---- MODULE Spec2Model ----
(***************************************************************************)
(* Model of scripts/generate.py: a static-site generator that discovers    *)
(* .rst files, reads each file's git history, orders the pages by the date *)
(* of their first commit and renders them plus an index.                   *)
(*                                                                         *)
(* Python strings are sequences of one-character strings; comparisons go   *)
(* through Alphabet, which lists the characters in code-point order.       *)
(***************************************************************************)
EXTENDS Integers, Sequences, FiniteSets, TLC

VARIABLES
    (* module state after the imports, src lines 15-23 *)
    publish_parts, Environment,
    (* locals of main, src lines 91-211 *)
    args, domain, repo_url, branch, rst_files, pages,
    (* position of main, its loop indices, its outcome *)
    pc, fi, pk, exit_code, exc, raised_in,
    (* what main printed, did under the output directory, and wrote there *)
    printed, ops, out_files, rendered, index_pages,
    (* the environment as main has read it so far *)
    clock, git_kinds, templates_exist, prev_build, static_exists, media_exists,
    (* a call of a url helper (closures of main, src lines 172-182) *)
    url_in, url_out,
    (* a call of git_log_commits after subprocess.run returned *)
    res, parsed

vars == << publish_parts, Environment, args, domain, repo_url, branch, rst_files,
           pages, pc, fi, pk, exit_code, exc, raised_in, printed, ops, out_files,
           rendered, index_pages, clock, git_kinds, templates_exist, prev_build,
           static_exists, media_exists, url_in, url_out, res, parsed >>

main_vars == << publish_parts, Environment, args, domain, rst_files,
           pages, pc, fi, pk, exit_code, exc, raised_in, printed, ops, out_files,
           rendered, index_pages, clock, git_kinds, templates_exist, prev_build,
           static_exists, media_exists >>

----------------------------------------------------------------------------
(* Characters and Python string primitives                                 *)

Alphabet ==
    << "\n", " ", "#", "+", "-", ".", "/",
       "0", "1", "2", "3", "4", "5", "6", "7", "8", "9", ":",
       "A", "C", "E", "M", "N", "R", "S", "T",
       "a", "b", "c", "d", "e", "g", "h", "i", "l", "m", "n", "o", "r", "s",
       "t", "x", "y", "|" >>

Code(c) == CHOOSE i \in 1..Len(Alphabet) : Alphabet[i] = c

Digits == << "0", "1", "2", "3", "4", "5", "6", "7", "8", "9" >>

Whitespace == { " ", "\n" }

(* a < b for Python str: lexicographic by code point, a proper prefix first *)
RECURSIVE StrLess(_, _)
StrLess(a, b) ==
    IF b = << >> THEN FALSE
    ELSE IF a = << >> THEN TRUE
    ELSE IF Head(a) = Head(b) THEN StrLess(Tail(a), Tail(b))
    ELSE Code(Head(a)) < Code(Head(b))

(* s.rstrip(chars): drops trailing characters while they belong to chars *)
RECURSIVE rstrip(_, _)
rstrip(s, chars) ==
    IF s # << >> /\ s[Len(s)] \in chars
    THEN rstrip(SubSeq(s, 1, Len(s) - 1), chars)
    ELSE s

(* s.endswith(suffix) *)
endswith(s, suffix) ==
    /\ Len(s) >= Len(suffix)
    /\ SubSeq(s, Len(s) - Len(suffix) + 1, Len(s)) = suffix

(* s.lower() on the alphabet's upper-case letters *)
LowerChar(c) ==
    CASE c = "R" -> "r"
      [] c = "S" -> "s"
      [] c = "T" -> "t"
      [] OTHER -> c

lower(s) == [i \in 1..Len(s) |-> LowerChar(s[i])]

(* index of the first occurrence of c in s, 0 when there is none *)
Find(s, c) ==
    IF \E i \in 1..Len(s) : s[i] = c
    THEN CHOOSE i \in 1..Len(s) : s[i] = c /\ \A j \in 1..(i - 1) : s[j] # c
    ELSE 0

(* index of the last occurrence of c in s, 0 when there is none *)
RFind(s, c) ==
    IF \E i \in 1..Len(s) : s[i] = c
    THEN CHOOSE i \in 1..Len(s) : s[i] = c /\ \A j \in (i + 1)..Len(s) : s[j] # c
    ELSE 0

(* s.split(sep, maxsplit) for a one-character sep *)
RECURSIVE split(_, _, _)
split(s, sep, maxsplit) ==
    LET p == Find(s, sep) IN
    IF maxsplit = 0 \/ p = 0 THEN << s >>
    ELSE << SubSeq(s, 1, p - 1) >>
         \o split(SubSeq(s, p + 1, Len(s)), sep, maxsplit - 1)

(* s.splitlines() for the line terminator "\n": no empty last line *)
RECURSIVE splitlines(_)
splitlines(s) ==
    LET p == Find(s, "\n") IN
    IF s = << >> THEN << >>
    ELSE IF p = 0 THEN << s >>
    ELSE << SubSeq(s, 1, p - 1) >> \o splitlines(SubSeq(s, p + 1, Len(s)))

(* bool(l.strip()): the line holds a character that is not whitespace *)
strip_nonempty(l) == \E i \in 1..Len(l) : l[i] \notin Whitespace

(* all sequences over S of length at most n *)
RECURSIVE SeqsUpTo(_, _)
SeqsUpTo(S, n) ==
    IF n = 0 THEN { << >> }
    ELSE LET shorter == SeqsUpTo(S, n - 1) IN
         shorter \cup { Append(q, x) : q \in shorter, x \in S }

----------------------------------------------------------------------------
(* commit_url / commits_for_path_url, src lines 172-182                    *)

DotGit == { ".", "g", "i", "t" }

(* url = repo_url.rstrip(".git").rstrip("/") *)
normalized_repo_url == rstrip(rstrip(repo_url, DotGit), { "/" })

commit_url(sha) ==
    IF repo_url = << >> THEN << "#" >>
    ELSE normalized_repo_url \o << "/", "c", "o", "m", "m", "i", "t", "/" >> \o sha

commits_for_path_url(relpath) ==
    IF repo_url = << >> THEN << "#" >>
    ELSE normalized_repo_url \o << "/", "c", "o", "m", "m", "i", "t", "s", "/" >>
         \o branch \o << "/" >> \o relpath

----------------------------------------------------------------------------
(* git_log_commits, src lines 41-55                                        *)

RECURSIVE parse_lines(_)
parse_lines(lines) ==
    IF lines = << >> THEN << >>
    ELSE LET parts == split(Head(lines), "|", 3) IN
         IF Len(parts) < 4 THEN parse_lines(Tail(lines))
         ELSE << [sha |-> parts[1], date |-> parts[2],
                  author |-> parts[3], message |-> parts[4]] >>
              \o parse_lines(Tail(lines))

(* a plausible slip: split("|") without the maxsplit of 3 *)
git_log_parse_unbounded_split(stdout) ==
    LET lines == SelectSeq(splitlines(stdout), strip_nonempty)
        RECURSIVE go(_)
        go(ls) ==
            IF ls = << >> THEN << >>
            ELSE LET parts == split(Head(ls), "|", Len(Head(ls))) IN
                 IF Len(parts) < 4 THEN go(Tail(ls))
                 ELSE << [sha |-> parts[1], date |-> parts[2],
                          author |-> parts[3], message |-> parts[4]] >>
                      \o go(Tail(ls))
    IN go(lines)

(* lines 47-55: the commits read from the standard output of a git log     *)
(* call that exited with status 0                                          *)
git_log_parse(stdout) ==
    parse_lines(SelectSeq(splitlines(stdout), strip_nonempty))

(* lines 44-55 after subprocess.run returned: res = [returncode, stdout]   *)
git_log_commits(r) ==
    IF r.returncode # 0 THEN << >> ELSE git_log_parse(r.stdout)

----------------------------------------------------------------------------
(* Timestamps: ISO-8601 text as git (%cI) and datetime.isoformat() write it *)

D2(n) == << Digits[(n \div 10) + 1], Digits[(n % 10) + 1] >>

D6(n) == << Digits[((n \div 100000) % 10) + 1], Digits[((n \div 10000) % 10) + 1],
            Digits[((n \div 1000) % 10) + 1], Digits[((n \div 100) % 10) + 1],
            Digits[((n \div 10) % 10) + 1], Digits[(n % 10) + 1] >>

(* the text of January `day`, 2020, `hour`:00:00 local time, `us`          *)
(* microseconds, at an offset of `off` whole hours from UTC                *)
FormatISO(day, hour, us, off) ==
    << "2", "0", "2", "0", "-", "0", "1", "-" >> \o D2(day) \o << "T" >> \o D2(hour)
    \o << ":", "0", "0", ":", "0", "0" >>
    \o (IF us = 0 THEN << >> ELSE << "." >> \o D6(us))
    \o << IF off < 0 THEN "-" ELSE "+" >> \o D2(IF off < 0 THEN -off ELSE off)
    \o << ":", "0", "0" >>

DigitVal(c) == CHOOSE d \in 0..9 : Digits[d + 1] = c

Num2(s, p) == DigitVal(s[p]) * 10 + DigitVal(s[p + 1])

(* the instant an ISO-8601 text denotes: hours since 2020-01-00T00:00 UTC  *)
(* and the microseconds within the hour                                    *)
Instant(s) ==
    LET n == Len(s)
        off == (IF s[n - 5] = "-" THEN -1 ELSE 1) * Num2(s, n - 4)
        us == IF s[20] = "."
              THEN Num2(s, 21) * 10000 + Num2(s, 23) * 100 + Num2(s, 25)
              ELSE 0
    IN [t |-> Num2(s, 9) * 24 + Num2(s, 12) - off, us |-> us]

(* instant a is chronologically before instant b *)
Before(a, b) == a.t < b.t \/ (a.t = b.t /\ a.us < b.us)

(* datetime.now(timezone.utc).isoformat() when the clock reads c *)
utc_now_isoformat(c) == FormatISO(c.t \div 24, c.t % 24, c.us, 0)

(* first_commit_date, src lines 58-62; now is the clock's reading *)
first_commit_date(commits, now) ==
    IF commits = << >> THEN utc_now_isoformat(now)
    ELSE commits[Len(commits)].date

----------------------------------------------------------------------------
(* Content discovery and the page records, src lines 32-38 and 112-131     *)

(* os.path.basename *)
basename(path) == SubSeq(path, RFind(path, "/") + 1, Len(path))

(* os.path.splitext(name)[0]: the last dot starts the extension unless    *)
(* only dots come before it                                                *)
splitext_root(name) ==
    LET p == RFind(name, ".") IN
    IF p = 0 \/ (\A j \in 1..(p - 1) : name[j] = ".") THEN name
    ELSE SubSeq(name, 1, p - 1)

(* sorted(list of str): ascending, by insertion *)
RECURSIVE sorted_strs(_)
sorted_strs(S) ==
    IF S = {} THEN << >>
    ELSE LET least == CHOOSE x \in S : \A y \in S \ {x} : StrLess(x, y)
         IN << least >> \o sorted_strs(S \ {least})

(* find_rst_files over a content tree given as the set of its file paths   *)
find_rst_files(tree) ==
    sorted_strs({ f \in tree :
                    endswith(lower(basename(f)), << ".", "r", "s", "t" >>) })

(* the page record of lines 115-127 *)
build_page(path, commits, first_date) ==
    LET slug == splitext_root(basename(path))
        out_filename == slug \o << ".", "h", "t", "m", "l" >>
    IN [path |-> path, rel |-> path, slug |-> slug, out_filename |-> out_filename,
        commits |-> commits, first_commit_date |-> first_date, title |-> slug,
        url |-> << "/" >> \o out_filename]

(* one step of a stable descending sort: p goes after every element whose  *)
(* key is not smaller than its own                                         *)
insert_desc(done, p) ==
    LET n == Cardinality({ j \in 1..Len(done) :
                 ~StrLess(done[j].first_commit_date, p.first_commit_date) })
    IN SubSeq(done, 1, n) \o << p >> \o SubSeq(done, n + 1, Len(done))

(* a plausible slip: an ascending stable sort, then reversed, which turns  *)
(* the order of equal keys around                                          *)
insert_desc_ties_reversed(done, p) ==
    LET n == Cardinality({ j \in 1..Len(done) :
                 StrLess(p.first_commit_date, done[j].first_commit_date) })
    IN SubSeq(done, 1, n) \o << p >> \o SubSeq(done, n + 1, Len(done))

RECURSIVE sort_ties_reversed_from(_, _)
sort_ties_reversed_from(done, rest) ==
    IF rest = << >> THEN done
    ELSE sort_ties_reversed_from(insert_desc_ties_reversed(done, Head(rest)), Tail(rest))

sort_ties_reversed(ps) == sort_ties_reversed_from(<< >>, ps)

RECURSIVE sort_from(_, _)
sort_from(done, rest) ==
    IF rest = << >> THEN done
    ELSE sort_from(insert_desc(done, Head(rest)), Tail(rest))

(* sort(key=first_commit_date, reverse=True), lines 131 and 203: Python's  *)
(* sort is stable, also under reverse=True                                 *)
sort_pages(ps) == sort_from(<< >>, ps)

----------------------------------------------------------------------------
(* The environment main runs in                                            *)

MaxFiles == 2

ContentFiles ==
    { << "c", "/", "a", "/", "x", ".", "r", "s", "t" >>,
      << "c", "/", "b", "/", "x", ".", "r", "s", "t" >>,
      << "c", "/", "y", ".", "R", "S", "T" >>,
      << "c", "/", "n", ".", "t", "x", "t" >> }

ContentTrees == { t \in SUBSET ContentFiles : Cardinality(t) <= MaxFiles }

(* the process starts on 2020-01-02 at 12:00 UTC *)
StartInstant == [t |-> 2 * 24 + 12, us |-> 0]

ClockValues == { [t |-> StartInstant.t + d, us |-> u] : d \in 0..1, u \in 0..1 }

(* committer dates, all before the process started, at offsets +00:00 and  *)
(* +02:00                                                                  *)
Stamps ==
    { FormatISO(d, h, 0, o) : d \in 1..2, h \in 12..13, o \in {0, 2} }
    \ { FormatISO(2, h, 0, 0) : h \in 12..13 }

LogLine(sha, stamp) == << sha, "|" >> \o stamp \o << "|", "a", "|", "m" >>

(* standard output of git log: no line, one commit, or two commits with    *)
(* a line between them that carries no record                              *)
GitOutputs ==
    { << >> }
    \cup { LogLine("e", st) : st \in Stamps }
    \cup { LogLine("d", FormatISO(1, 13, 0, 0)) \o << "\n", "x", "\n" >> \o LogLine("e", st) :
             st \in { FormatISO(1, 12, 0, 0), FormatISO(1, 13, 0, 2) } }

(* what subprocess.run returns: a failure status, an empty log for a file  *)
(* git does not track, or a history                                        *)
GitResults ==
    { [kind |-> "nonzero", returncode |-> 128, stdout |-> << >>] }
    \cup { [kind |-> IF out = << >> THEN "untracked" ELSE "history",
             returncode |-> 0, stdout |-> out] : out \in GitOutputs }

Domains == { << >>, << " ", "d", ".", "e" >> }

RepoUrls == { << >>, << "r", ".", "g", "i", "t" >> }

----------------------------------------------------------------------------
(* main, src lines 91-211                                                  *)

(* a plausible slip: the --skip-render test placed before the --dry-run one *)
mode_skip_render_first(a) ==
    IF a.skip_render THEN "skip_render"
    ELSE IF a.dry_run THEN "dry_run"
    ELSE "full"

(* lines 133-145: which of the three ways main goes on after the sort *)
mode(a) ==
    IF a.dry_run THEN "dry_run"
    ELSE IF a.skip_render THEN "skip_render"
    ELSE "full"

(* a plausible slip: "and" for "or" in the test of line 146 *)
deps_missing_both == publish_parts = "None" /\ Environment = "None"

(* line 146 *)
deps_missing == publish_parts = "None" \/ Environment = "None"

(* a plausible slip: no try/except around copy_media *)
main_catches_nothing(site, e) == FALSE

(* lines 167-170: the only try/except of main *)
main_catches(site, e) == site = "copy_media" /\ e = "FileNotFoundError"

(* open(path, "w") and write: creates the file or replaces its content *)
write_file(files, name, content) ==
    [n \in DOMAIN files \cup {name} |-> IF n = name THEN content ELSE files[n]]

(* s.strip() *)
RECURSIVE lstrip_ws(_)
lstrip_ws(s) == IF s # << >> /\ Head(s) \in Whitespace THEN lstrip_ws(Tail(s)) ELSE s

strip(s) == rstrip(lstrip_ws(s), Whitespace)

(* copy_static / copy_media, lines 76-88: what they do under the output    *)
(* directory, and whether shutil.copytree raises because src is missing    *)
copy_dir(name, src_exists, dst_exists) ==
    [ops |-> (IF dst_exists THEN << [op |-> "rmtree", name |-> name] >> ELSE << >>)
             \o (IF src_exists THEN << [op |-> "copytree", name |-> name] >> ELSE << >>),
     raises |-> ~src_exists]

StaticName == << "s", "t", "a", "t", "i", "c" >>
MediaName == << "m", "e", "d", "i", "a" >>
IndexName == << "i", "n", "d", "e", "x", ".", "h", "t", "m", "l" >>
CnameName == << "C", "N", "A", "M", "E" >>

NoFiles == [n \in {} |-> << >>]

Raise(e, where) ==
    /\ pc' = "raised"
    /\ exc' = e
    /\ raised_in' = where

NoRaise == UNCHANGED << exc, raised_in >>

Return(code) ==
    /\ pc' = "done"
    /\ exit_code' = code

helper_vars == << url_in, url_out, res, parsed >>

(* lines 99-107: the configuration is read, or load_config raises *)
LoadConfig ==
    /\ pc = "load_config"
    /\ \/ /\ \E d \in Domains, u \in RepoUrls : domain' = d /\ repo_url' = u
          /\ pc' = "find_rst_files"
          /\ NoRaise
       \/ /\ Raise("FileNotFoundError", "load_config")
          /\ UNCHANGED << domain, repo_url >>
    /\ UNCHANGED << publish_parts, Environment, args, branch, rst_files, pages, fi, pk,
                    exit_code, printed, ops, out_files, rendered, index_pages, clock,
                    git_kinds, templates_exist, prev_build, static_exists,
                    media_exists, helper_vars >>

(* line 109 *)
FindRstFiles ==
    /\ pc = "find_rst_files"
    /\ \E tree \in ContentTrees : rst_files' = find_rst_files(tree)
    /\ fi' = 1
    /\ pc' = IF rst_files' = << >> THEN "sort" ELSE "git_log"
    /\ UNCHANGED << publish_parts, Environment, args, domain, repo_url, branch, pages,
                    pk, exit_code, exc, raised_in, printed, ops, out_files, rendered,
                    index_pages, clock, git_kinds, templates_exist, prev_build,
                    static_exists, media_exists, helper_vars >>

(* lines 112-128, one turn of the loop: git log runs for rst_files[fi],    *)
(* or subprocess.run raises because there is no git executable             *)
GitLog ==
    /\ pc = "git_log"
    /\ \/ /\ \E r \in GitResults, now \in ClockValues :
                LET commits == git_log_commits(r) IN
                /\ ~Before(now, clock)
                /\ commits # << >> => now = clock
                /\ clock' = now
                /\ pages' = Append(pages, build_page(rst_files[fi], commits,
                                                    first_commit_date(commits, now)))
                /\ git_kinds' = Append(git_kinds, r.kind)
          /\ fi' = fi + 1
          /\ pc' = IF fi = Len(rst_files) THEN "sort" ELSE "git_log"
          /\ NoRaise
       \/ /\ git_kinds' = Append(git_kinds, "absent")
          /\ Raise("FileNotFoundError", "git_log_commits")
          /\ UNCHANGED << clock, pages, fi >>
    /\ UNCHANGED << publish_parts, Environment, args, domain, repo_url, branch,
                    rst_files, pk, exit_code, printed, ops, out_files, rendered,
                    index_pages, templates_exist, prev_build, static_exists,
                    media_exists, helper_vars >>

(* line 131 *)
SortPages ==
    /\ pc = "sort"
    /\ pages' = sort_pages(pages)
    /\ pc' = "mode"
    /\ UNCHANGED << publish_parts, Environment, args, domain, repo_url, branch,
                    rst_files, fi, pk, exit_code, exc, raised_in, printed, ops,
                    out_files, rendered, index_pages, clock, git_kinds,
                    templates_exist, prev_build, static_exists, media_exists,
                    helper_vars >>

(* lines 133-148: the two listings and the dependency check *)
Dispatch ==
    /\ pc = "mode"
    /\ IF mode(args) = "dry_run"
       THEN /\ printed' = [kind |-> "dry_run",
                           rows |-> [n \in 1..Len(pages) |->
                                      << pages[n].rel, pages[n].first_commit_date,
                                         Len(pages[n].commits) >>]]
            /\ Return(0)
       ELSE IF mode(args) = "skip_render"
       THEN /\ printed' = [kind |-> "skip_render",
                           rows |-> [n \in 1..Len(pages) |->
                                      << pages[n].rel, pages[n].out_filename,
                                         Len(pages[n].commits) >>]]
            /\ Return(0)
       ELSE IF deps_missing
       THEN /\ printed' = [kind |-> "missing_dependencies", rows |-> << >>]
            /\ Return(2)
       ELSE /\ pc' = "templates"
            /\ UNCHANGED << printed, exit_code >>
    /\ UNCHANGED << publish_parts, Environment, args, domain, repo_url, branch,
                    rst_files, pages, fi, pk, exc, raised_in, ops, out_files,
                    rendered, index_pages, clock, git_kinds, templates_exist,
                    prev_build, static_exists, media_exists, helper_vars >>

(* lines 150-156: Environment(...) and the three get_template calls *)
LoadTemplates ==
    /\ pc = "templates"
    /\ IF Environment = "None"
       THEN /\ Raise("TypeError", "Environment")
            /\ UNCHANGED templates_exist
       ELSE \E found \in { "yes", "no" } :
              /\ templates_exist' = found
              /\ IF found = "yes"
                 THEN pc' = "copy_static" /\ NoRaise
                 ELSE Raise("TemplateNotFound", "get_template")
    /\ UNCHANGED << publish_parts, Environment, args, domain, repo_url, branch,
                    rst_files, pages, fi, pk, exit_code, printed, ops, out_files,
                    rendered, index_pages, clock, git_kinds, prev_build,
                    static_exists, media_exists, helper_vars >>

(* lines 158-159: ensure_dir, then copy_static, which no handler guards *)
CopyStatic ==
    /\ pc = "copy_static"
    /\ \E prev \in { "yes", "no" }, src \in { "yes", "no" } :
         LET c == copy_dir(StaticName, src = "yes", prev = "yes") IN
         /\ prev_build' = prev
         /\ static_exists' = src
         /\ ops' = ops \o << [op |-> "makedirs", name |-> << >>] >> \o c.ops
         /\ IF c.raises /\ ~main_catches("copy_static", "FileNotFoundError")
            THEN Raise("FileNotFoundError", "copy_static")
            ELSE pc' = "copy_media" /\ NoRaise
    /\ UNCHANGED << publish_parts, Environment, args, domain, repo_url, branch,
                    rst_files, pages, fi, pk, exit_code, printed, out_files,
                    rendered, index_pages, clock, git_kinds, templates_exist,
                    media_exists, helper_vars >>

(* lines 162-170: the CNAME file, then copy_media inside try/except *)
CopyMedia ==
    /\ pc = "copy_media"
    /\ \E src \in { "yes", "no" } :
         LET c == copy_dir(MediaName, src = "yes", prev_build = "yes")
             cname == IF domain # << >>
                      THEN << [op |-> "write", name |-> CnameName] >> ELSE << >>
         IN
         /\ media_exists' = src
         /\ out_files' = IF domain # << >>
                          THEN write_file(out_files, CnameName,
                                          [kind |-> "cname",
                                           text |-> strip(domain) \o << "\n" >>])
                          ELSE out_files
         /\ ops' = ops \o cname \o c.ops
         /\ IF c.raises /\ ~main_catches("copy_media", "FileNotFoundError")
            THEN Raise("FileNotFoundError", "copy_media")
            ELSE /\ pc' = IF pages = << >> THEN "index" ELSE "render"
                 /\ NoRaise
    /\ pk' = 1
    /\ UNCHANGED << publish_parts, Environment, args, domain, repo_url, branch,
                    rst_files, pages, fi, exit_code, printed, rendered,
                    index_pages, clock, git_kinds, templates_exist, prev_build,
                    static_exists, helper_vars >>

(* lines 185-201, one turn of the loop: pages[pk] is rendered and written  *)
RenderPage ==
    /\ pc = "render"
    /\ LET p == pages[pk] IN
       IF publish_parts = "None"
       THEN /\ Raise("RuntimeError", "render_rst")
            /\ UNCHANGED << out_files, ops, rendered, pk >>
       ELSE /\ out_files' = write_file(out_files, p.out_filename,
                                [kind |-> "page", source |-> p.path, title |-> p.title,
                                 commits |-> p.commits,
                                 commits_for_path_url |-> commits_for_path_url(p.rel)])
            /\ ops' = Append(ops, [op |-> "write", name |-> p.out_filename])
            /\ rendered' = Append(rendered, p.path)
            /\ pk' = pk + 1
            /\ pc' = IF pk = Len(pages) THEN "index" ELSE "render"
            /\ NoRaise
    /\ UNCHANGED << publish_parts, Environment, args, domain, repo_url, branch,
                    rst_files, pages, fi, exit_code, printed, index_pages, clock,
                    git_kinds, templates_exist, prev_build, static_exists,
                    media_exists, helper_vars >>

(* lines 203-211: the second sort, the index, and the return *)
RenderIndex ==
    /\ pc = "index"
    /\ pages' = sort_pages(pages)
    /\ index_pages' = pages'
    /\ out_files' = write_file(out_files, IndexName,
                               [kind |-> "index", pages |-> pages'])
    /\ ops' = Append(ops, [op |-> "write", name |-> IndexName])
    /\ Return(0)
    /\ UNCHANGED << publish_parts, Environment, args, domain, repo_url, branch,
                    rst_files, fi, pk, exc, raised_in, printed, rendered, clock,
                    git_kinds, templates_exist, prev_build, static_exists,
                    media_exists, helper_vars >>

HelpersIdle ==
    /\ url_in = [fn |-> "none", arg |-> << >>]
    /\ url_out = << >>
    /\ res = [kind |-> "none", returncode |-> 0, stdout |-> << >>]
    /\ parsed = [called |-> FALSE, commits |-> << >>]

MainAt(start) ==
    /\ pc = start
    /\ domain = << >>
    /\ rst_files = << >>
    /\ pages = << >>
    /\ fi = 1
    /\ pk = 1
    /\ exit_code = -1
    /\ exc = "none"
    /\ raised_in = "none"
    /\ printed = [kind |-> "none", rows |-> << >>]
    /\ ops = << >>
    /\ out_files = NoFiles
    /\ rendered = << >>
    /\ index_pages = << >>
    /\ clock = StartInstant
    /\ git_kinds = << >>
    /\ templates_exist = "unread"
    /\ prev_build = "unread"
    /\ static_exists = "unread"
    /\ media_exists = "unread"

(* main is entered: the imports of lines 15-23 have succeeded or left None, *)
(* and the command line has been parsed                                    *)
Init ==
    /\ publish_parts \in { "None", "docutils" }
    /\ Environment \in { "None", "jinja2" }
    /\ args \in [dry_run : BOOLEAN, skip_render : BOOLEAN]
    /\ repo_url = << >>
    /\ branch = << "m" >>
    /\ MainAt("load_config")
    /\ HelpersIdle

Next ==
    \/ LoadConfig
    \/ FindRstFiles
    \/ GitLog
    \/ SortPages
    \/ Dispatch
    \/ LoadTemplates
    \/ CopyStatic
    \/ CopyMedia
    \/ RenderPage
    \/ RenderIndex

Spec == Init /\ [][Next]_vars

----------------------------------------------------------------------------
(* The url helpers on their own: any repo_url, then calls of the closures  *)

MaxUrlLen == 5

UrlChars == { ".", "g", "i", "t", "/", "r" }

Shas == { << "e" >>, << "a", "b", "c", "1", "2", "3" >> }

RelPaths == { << "c", "/", "y", ".", "R", "S", "T" >> }

MainIdle ==
    /\ publish_parts = "docutils"
    /\ Environment = "jinja2"
    /\ args = [dry_run |-> FALSE, skip_render |-> FALSE]
    /\ MainAt("idle")

InitUrl ==
    /\ repo_url \in SeqsUpTo(UrlChars, MaxUrlLen)
    /\ branch = << "m" >>
    /\ MainIdle
    /\ HelpersIdle

CallCommitUrl ==
    /\ \E sha \in Shas :
         /\ url_in' = [fn |-> "commit_url", arg |-> sha]
         /\ url_out' = commit_url(sha)
    /\ UNCHANGED << main_vars, repo_url, branch, res, parsed >>

CallCommitsForPathUrl ==
    /\ \E relpath \in RelPaths :
         /\ url_in' = [fn |-> "commits_for_path_url", arg |-> relpath]
         /\ url_out' = commits_for_path_url(relpath)
    /\ UNCHANGED << main_vars, repo_url, branch, res, parsed >>

NextUrl == CallCommitUrl \/ CallCommitsForPathUrl

SpecUrl == InitUrl /\ [][NextUrl]_vars

----------------------------------------------------------------------------
(* git_log_commits on its own: any standard output, then the call          *)

MaxOut == 8

OutChars == { "a", "|", " ", "\n" }

InitParse ==
    /\ res \in { [kind |-> "history", returncode |-> 0, stdout |-> out] :
                    out \in SeqsUpTo(OutChars, MaxOut) }
               \cup { [kind |-> "nonzero", returncode |-> 128, stdout |-> out] :
                      out \in { << >>, << "a", "|", "|", "|" >> } }
    /\ parsed = [called |-> FALSE, commits |-> << >>]
    /\ url_in = [fn |-> "none", arg |-> << >>]
    /\ url_out = << >>
    /\ repo_url = << >>
    /\ branch = << "m" >>
    /\ MainIdle

CallGitLogCommits ==
    /\ ~parsed.called
    /\ parsed' = [called |-> TRUE, commits |-> git_log_commits(res)]
    /\ UNCHANGED << main_vars, repo_url, branch, res, url_in, url_out >>

NextParse == CallGitLogCommits

SpecParse == InitParse /\ [][NextParse]_vars

----------------------------------------------------------------------------
(* Properties                                                              *)

(* main has passed the sort of line 131: pages is the ordered page list *)
Ordered ==
    pc \in { "mode", "templates", "copy_static", "copy_media", "render", "index", "done" }
    \/ (pc = "raised" /\ raised_in \notin { "load_config", "git_log_commits" })

(* neither --dry-run nor --skip-render *)
FullMode == ~args.dry_run /\ ~args.skip_render

(* a full render: full mode with docutils and Jinja2 both imported *)
FullRender == FullMode /\ publish_parts # "None" /\ Environment # "None"

(* the date of the oldest commit of a page with a history *)
OldestCommit(p) == Instant(p.commits[Len(p.commits)].date)

(* C1: of two pages with non-empty histories whose oldest commits are at  *)
(* different instants, the ordered page list has the one whose oldest      *)
(* commit is chronologically later strictly first, whatever the offsets    *)
(* of the two timestamps.                                                  *)
C1_LaterFirstCommitSortsFirst ==
    Ordered =>
        \A a, b \in 1..Len(pages) :
            ( /\ pages[a].commits # << >>
              /\ pages[b].commits # << >>
              /\ Before(OldestCommit(pages[b]), OldestCommit(pages[a])) )
            => a < b

GitFailures == { "nonzero", "absent", "untracked" }

(* C2: git_log_commits never fails: after a non-zero exit, a missing git   *)
(* executable or an untracked file, the run has a page for the file, with  *)
(* no commits, and has not stopped on an exception of git_log_commits.     *)
C2_GitFailureGivesEmptyHistory ==
    /\ ~(pc = "raised" /\ raised_in = "git_log_commits")
    /\ \A n \in 1..Len(git_kinds) :
          git_kinds[n] \in GitFailures
          => \E m \in 1..Len(pages) :
                pages[m].path = rst_files[n] /\ pages[m].commits = << >>

drop_suffix(u, suffix) ==
    IF endswith(u, suffix) THEN SubSeq(u, 1, Len(u) - Len(suffix)) ELSE u

GitSuffix == << ".", "g", "i", "t" >>

(* repo_url with only a trailing "/" and a trailing ".git" suffix removed, *)
(* in each order and with one or every trailing "/" taken off              *)
Normalized(u) ==
    { drop_suffix(drop_suffix(u, GitSuffix), << "/" >>),
      drop_suffix(drop_suffix(u, << "/" >>), GitSuffix),
      rstrip(drop_suffix(u, GitSuffix), { "/" }),
      drop_suffix(rstrip(u, { "/" }), GitSuffix) }

(* C3: commit_url and commits_for_path_url return "#" for an empty         *)
(* repo_url, and otherwise N/commit/<hash> and N/commits/<branch>/<path>,  *)
(* N being repo_url less a trailing "/" and a trailing ".git" and nothing  *)
(* else.                                                                   *)
C3_UrlFromNormalizedRepoUrl ==
    url_in.fn # "none" =>
        IF repo_url = << >> THEN url_out = << "#" >>
        ELSE \E N \in Normalized(repo_url) :
               url_out = N \o
                 (IF url_in.fn = "commit_url"
                  THEN << "/", "c", "o", "m", "m", "i", "t", "/" >> \o url_in.arg
                  ELSE << "/", "c", "o", "m", "m", "i", "t", "s", "/" >> \o branch
                       \o << "/" >> \o url_in.arg)

(* C4: a page without history has a first_commit_date not earlier than the *)
(* start of the process, and in the ordered page list it comes before      *)
(* every page that has a history (all commit dates lie in the past).       *)
C4_EmptyHistorySortsNewest ==
    \A a \in 1..Len(pages) :
        pages[a].commits = << >> =>
            /\ ~Before(Instant(pages[a].first_commit_date), StartInstant)
            /\ Ordered => \A b \in 1..Len(pages) :
                             pages[b].commits # << >> => a < b

(* C5: in full mode with docutils or Jinja2 missing, main returns 2 and    *)
(* has done nothing under the output directory: it never gets to the       *)
(* templates, ensure_dir, copy_static, CNAME, copy_media or any write.     *)
C5_DependencyCheckBeforeOutput ==
    (FullMode /\ (publish_parts = "None" \/ Environment = "None")) =>
        /\ ops = << >>
        /\ out_files = NoFiles
        /\ pc \notin { "templates", "copy_static", "copy_media", "render", "index" }
        /\ pc = "done" => exit_code = 2
        /\ pc = "raised" => raised_in \in { "load_config", "git_log_commits" }

C5_Witness ==
    /\ FullMode
    /\ publish_parts = "None"
    /\ Environment = "jinja2"
    /\ pc = "done"
    /\ exit_code = 2
    /\ Len(pages) = 2

PageFilesWritten ==
    \A n \in 1..Len(pages) :
        /\ pages[n].out_filename \in DOMAIN out_files
        /\ out_files[pages[n].out_filename].kind = "page"

(* C6: in a full render, a missing media directory stops nothing: the run  *)
(* goes on, writes every page file and index.html and returns 0; a missing *)
(* static directory ends the run with a filesystem error, no page file and *)
(* no index.html written.                                                  *)
C6_MediaOptionalStaticRequired ==
    FullRender =>
        /\ media_exists = "no" =>
              /\ pc \in { "render", "index", "done" }
              /\ pc = "render" => pk \in 1..Len(pages)
              /\ pc = "done" =>
                    /\ exit_code = 0
                    /\ PageFilesWritten
                    /\ IndexName \in DOMAIN out_files
        /\ static_exists # "yes" =>
              /\ pc # "done"
              /\ rendered = << >>
              /\ \A n \in DOMAIN out_files : out_files[n].kind \notin { "page", "index" }
        /\ static_exists = "no" =>
              /\ pc = "raised"
              /\ exc = "FileNotFoundError"
              /\ raised_in = "copy_static"

C6_Witness ==
    /\ FullRender
    /\ media_exists = "no"
    /\ static_exists = "yes"
    /\ pc = "done"
    /\ exit_code = 0
    /\ Len(pages) = 2
    /\ IndexName \in DOMAIN out_files

(* C7: with --dry-run or --skip-render main only discovers the files and   *)
(* reads their histories, then returns 0; it does nothing under the output *)
(* directory and never looks for the templates or the static and media     *)
(* directories, whichever libraries are there; with both flags the dry-run *)
(* listing is printed.                                                     *)
C7_ListingModesTouchNothing ==
    (args.dry_run \/ args.skip_render) =>
        /\ ops = << >>
        /\ out_files = NoFiles
        /\ templates_exist = "unread"
        /\ prev_build = "unread"
        /\ static_exists = "unread"
        /\ media_exists = "unread"
        /\ pc \notin { "templates", "copy_static", "copy_media", "render", "index" }
        /\ pc = "done" =>
              /\ exit_code = 0
              /\ printed.kind = IF args.dry_run THEN "dry_run" ELSE "skip_render"
              /\ Len(printed.rows) = Len(rst_files)
              /\ Len(pages) = Len(rst_files)

C7_Witness ==
    /\ args.dry_run
    /\ args.skip_render
    /\ publish_parts = "None"
    /\ pc = "done"
    /\ printed.kind = "dry_run"
    /\ Len(printed.rows) = 2

PipePositions(l) == { j \in 1..Len(l) : l[j] = "|" }

NthPipe(l, n) ==
    CHOOSE j \in PipePositions(l) :
        Cardinality({ m \in PipePositions(l) : m < j }) = n - 1

(* (hash, date, author, message) of a line: the text around its first      *)
(* three pipes, the message being everything after the third               *)
RecordOf(l) ==
    [sha |-> SubSeq(l, 1, NthPipe(l, 1) - 1),
     date |-> SubSeq(l, NthPipe(l, 1) + 1, NthPipe(l, 2) - 1),
     author |-> SubSeq(l, NthPipe(l, 2) + 1, NthPipe(l, 3) - 1),
     message |-> SubSeq(l, NthPipe(l, 3) + 1, Len(l))]

HasFourFields(l) == strip_nonempty(l) /\ Cardinality(PipePositions(l)) >= 3

(* C8: from the output lines of a successful git log, git_log_commits      *)
(* returns the non-blank lines with at least 4 pipe-delimited fields, in   *)
(* their order, each as (hash, date, author, message); the other lines are *)
(* dropped.                                                                *)
C8_ParsedCommitsAreTheFourFieldLines ==
    (parsed.called /\ res.returncode = 0) =>
        LET kept == SelectSeq(splitlines(res.stdout), HasFourFields)
        IN parsed.commits = [n \in 1..Len(kept) |-> RecordOf(kept[n])]

C8_Witness ==
    /\ parsed.called
    /\ res.returncode = 0
    /\ Len(parsed.commits) = 2
    /\ parsed.commits[1].message = << "|" >>
    /\ parsed.commits[2].message = << >>

(* C9: the descending sort is stable: pages with equal first_commit_date   *)
(* stay in discovery order, which is the order of their paths; and the     *)
(* sort before the index changes nothing, so the index lists the pages in  *)
(* the order in which they were rendered.                                  *)
C9_StableOrder ==
    /\ Ordered =>
          \A a, b \in 1..Len(pages) :
              (a < b /\ pages[a].first_commit_date = pages[b].first_commit_date)
              => StrLess(pages[a].path, pages[b].path)
    /\ (pc = "done" /\ exit_code = 0 /\ FullMode) =>
          /\ [n \in 1..Len(index_pages) |-> index_pages[n].path] = rendered
          /\ out_files[IndexName].pages = index_pages

C9_Witness ==
    /\ pc = "done"
    /\ exit_code = 0
    /\ FullMode
    /\ Len(index_pages) = 2
    /\ index_pages[1].first_commit_date = index_pages[2].first_commit_date
    /\ index_pages[1].commits # << >>

SameOutput(a) == { b \in 1..Len(pages) : pages[b].out_filename = pages[a].out_filename }

LastOf(S) == CHOOSE b \in S : \A c \in S : c <= b

(* What the code does when files share a basename: a full render still    *)
(* ends with exit code 0; {slug}.html holds the rendering of the colliding *)
(* page that is last in the ordered page list, which is the one whose      *)
(* first_commit_date text is smallest, and of those the one with the later *)
(* path; the index lists every page, the colliding ones with the same url. *)
LastCollidingPageIsWritten ==
    FullRender =>
        /\ rendered # << >> => pc \in { "render", "index", "done" }
        /\ pc = "done" =>
              /\ exit_code = 0
              /\ Len(index_pages) = Len(rst_files)
              /\ \A a \in 1..Len(pages) :
                    LET last == LastOf(SameOutput(a)) IN
                    /\ out_files[pages[a].out_filename].source = pages[last].path
                    /\ index_pages[a].url = << "/" >> \o pages[a].out_filename
                    /\ \E n \in 1..Len(index_pages) : index_pages[n].path = pages[a].path
                    /\ \A b \in SameOutput(a) \ {last} :
                          \/ StrLess(pages[last].first_commit_date,
                                     pages[b].first_commit_date)
                          \/ /\ pages[last].first_commit_date = pages[b].first_commit_date
                             /\ StrLess(pages[b].path, pages[last].path)

LastCollidingPageIsWritten_Reached ==
    /\ FullRender
    /\ pc = "done"
    /\ exit_code = 0
    /\ Len(pages) = 2
    /\ pages[1].path # pages[2].path
    /\ pages[1].out_filename = pages[2].out_filename
    /\ pages[1].first_commit_date # pages[2].first_commit_date
    /\ out_files[pages[1].out_filename].source = pages[2].path

(* the instant of a page's first_commit_date *)
FirstCommitInstant(p) == Instant(p.first_commit_date)

(* C10: when files share a basename a full render ends with exit code 0    *)
(* and no error; {slug}.html holds the rendering of the colliding page     *)
(* that is last in the ordered page list, the one with the oldest          *)
(* first-commit date, or on a tie the one with the later path; the index   *)
(* lists every colliding page, all with the same url.                      *)
C10_CollidingPagesOldestWins ==
    FullRender =>
        /\ rendered # << >> => pc \in { "render", "index", "done" }
        /\ pc = "done" =>
              /\ exit_code = 0
              /\ Len(index_pages) = Len(rst_files)
              /\ \A a \in 1..Len(pages) :
                    LET last == LastOf(SameOutput(a)) IN
                    /\ out_files[pages[a].out_filename].source = pages[last].path
                    /\ index_pages[a].url = << "/" >> \o pages[a].out_filename
                    /\ \E n \in 1..Len(index_pages) : index_pages[n].path = pages[a].path
                    /\ \A b \in SameOutput(a) \ {last} :
                          \/ Before(FirstCommitInstant(pages[last]),
                                    FirstCommitInstant(pages[b]))
                          \/ /\ FirstCommitInstant(pages[last]) = FirstCommitInstant(pages[b])
                             /\ StrLess(pages[b].path, pages[last].path)

====
